---- MODULE Spec2Model ----
(***************************************************************************)
(* Layer construction in OpenDeep: DenoisingAutoencoder (Tutorial01), and  *)
(* Conv1D / Conv2D / ConvPoolLayer (models/single_layer/convolutional.py). *)
(*                                                                         *)
(* A caller builds layers one after another.  Each constructor call is one *)
(* action: it resolves its options, wires the hooks, allocates or adopts   *)
(* the parameters and builds the symbolic graph, or raises.                *)
(*                                                                         *)
(* Python values are tagged tuples, so that Python truthiness (the `or`    *)
(* idiom and `if hook:` of the constructors) is computed as Python does:   *)
(*   <<"none">>  <<"int", n>>  <<"float", thousandths>>  <<"bool", b>>     *)
(*   <<"str", s>>  <<"tuple", seq>>  <<"list", seq>>  <<"func", name>>     *)
(*   <<"ndarray", seq>>   a numpy array; the one array that outlives a     *)
(*                    call is the caller's, held in caller_filter_shape    *)
(*   <<"node", id>>   a symbolic variable / shared parameter object,       *)
(*                    id = <<index of the allocating call, name>>          *)
(* Graph expressions are tuples <<op, operands...>> over such nodes.       *)
(***************************************************************************)
EXTENDS Integers, Sequences, FiniteSets, TLC

VARIABLES
    n,          \* number of constructor calls made so far
    upstream,   \* get_outputs() of the most recently built layer (or NoNode)
    last,       \* the last constructor call: its arguments and its outcome
    caller_filter_shape
                \* the numpy array the caller keeps as the 'filter_shape' of a config

vars == <<n, upstream, last, caller_filter_shape>>

-----------------------------------------------------------------------------
(* Bounds *)

MaxLayers == 2      \* constructor calls per behaviour
MaxK == 2           \* largest kernel extent tried (1..MaxK: odd and even)

-----------------------------------------------------------------------------
(* Python values *)

None == <<"none">>
PyInt(i) == <<"int", i>>
PyFloat(m) == <<"float", m>>
PyBool(b) == <<"bool", b>>
PyStr(s) == <<"str", s>>
PyTuple(s) == <<"tuple", s>>
PyList(s) == <<"list", s>>
PyFunc(f) == <<"func", f>>
Node(k, name) == <<"node", <<k, name>>>>

NoNode == <<"nonode">>

\* bool(v) as Python computes it
Truthy(v) ==
    CASE v[1] = "none" -> FALSE
      [] v[1] = "int" -> v[2] # 0
      [] v[1] = "float" -> v[2] # 0
      [] v[1] = "bool" -> v[2]
      [] v[1] = "str" -> v[2] # ""
      [] v[1] = "tuple" -> Len(v[2]) > 0
      [] v[1] = "list" -> Len(v[2]) > 0
      [] OTHER -> TRUE

\* the expression `a or b`
Or(a, b) == IF Truthy(a) THEN a ELSE b

\* len(v) of a tuple or a list
PyLen(v) == Len(v[2])

\* v[i] with Python's 0-based index i (the caller checks i < len(v))
Item(v, i) == v[2][i + 1]

\* dict.get(key): None when the key is absent
Get(args, key) == IF key \in DOMAIN args THEN args[key] ELSE None

EmptyDict == [k \in {} |-> None]

\* Model.__init__(config, defaults): self.args is the defaults overwritten by
\* the config ("Any parameter from the 'config' will overwrite the 'defaults'")
CombineArgs(config, defaults) ==
    [k \in DOMAIN config \cup DOMAIN defaults |->
        IF k \in DOMAIN config THEN config[k] ELSE defaults[k]]

\* `explicit or self.args.get(name)`: how every constructor resolves an option
Resolve(explicit, args, name) == Or(explicit, Get(args, name))

-----------------------------------------------------------------------------
(* Outcomes of a constructor call *)

NoLayer == [kind |-> "none"]

\* a call's outcome: the layer or the exception, and the allocations it made (in
\* order) up to there: <<"placeholder", name>>, <<"get_weights_uniform", name,
\* shape, interval>>, <<"get_weights_gaussian", name, shape, mean, std>>,
\* <<"get_bias", name, shape, init_values>>
Built(layer, allocs) == [status |-> "ok", layer |-> layer, allocs |-> allocs]

Raised(error, allocs) == [status |-> error, layer |-> NoLayer, allocs |-> allocs]

\* a shape: a Python tuple of ints
Shape(dims) == PyTuple([i \in DOMAIN dims |-> PyInt(dims[i])])

\* a shape held in a numpy int array (a mutable object)
PyArray(dims) == <<"ndarray", [i \in DOMAIN dims |-> PyInt(dims[i])]>>

IsArray(v) == v[1] = "ndarray"

\* numpy.asarray(v): v itself if it is an array, else a new array of its entries
AsArray(v) == <<"ndarray", v[2]>>

\* tensors and parameters the caller owns and hands in through hooks
ExtInput == Node(0, "input")
ExtHidden == Node(0, "hidden")
ExtParamNames == <<"p1", "p2", "p3", "p4", "p5", "p6">>
ExtParam(i) == Node(0, ExtParamNames[i])

KnownActivations == {"tanh", "sigmoid", "rectifier"}
KnownCosts == {"binary_crossentropy"}

\* get_activation_function(name) / get_cost_function(name) find the name
ActivationKnown(name) == name[1] = "str" /\ name[2] \in KnownActivations
CostKnown(name) == name[1] = "str" /\ name[2] \in KnownCosts

-----------------------------------------------------------------------------
(* DenoisingAutoencoder *)

DAE_defaults ==
    [input_size |-> PyInt(784), hidden_size |-> PyInt(1000),
     corruption_level |-> PyFloat(400), hidden_activation |-> PyStr("tanh"),
     visible_activation |-> PyStr("sigmoid"),
     cost_function |-> PyStr("binary_crossentropy")]

\* the size an (inputs or hiddens) hook or the configuration gives
DAE_size(hook, explicit, args, name) ==
    IF Truthy(hook) THEN Item(hook, 0) ELSE Or(explicit, Get(args, name))

\* (variant: a placeholder whatever the hook)
DAE_x_fresh(k, inputs_hook) == Node(k, "X")

\* the symbolic input x of call k
DAE_x(k, inputs_hook) ==
    IF Truthy(inputs_hook) THEN Item(inputs_hook, 1) ELSE Node(k, "X")

\* W, b0, b1 of call k (the caller has checked the hook's length)
DAE_params(k, params_hook) ==
    IF Truthy(params_hook)
    THEN <<Item(params_hook, 0), Item(params_hook, 1), Item(params_hook, 2)>>
    ELSE <<Node(k, "W"), Node(k, "b0"), Node(k, "b1")>>

\* the allocations behind DAE_params
DAE_param_allocs(params_hook, input_size, hidden_size) ==
    IF Truthy(params_hook)
    THEN <<>>
    ELSE << <<"get_weights_uniform", "W", PyTuple(<<input_size, hidden_size>>), None>>,
            <<"get_bias", "b0", input_size, None>>,
            <<"get_bias", "b1", hidden_size, None>> >>

Encode(act, input, W, b1) == <<"apply", act, <<"add", <<"dot", input, W>>, b1>>>>

Decode(act, hiddens, W, b0) ==
    <<"apply", act, <<"add", <<"dot", hiddens, <<"T", W>>>>, b0>>>>

\* (variant: the training path decodes the hook's hiddens)
DAE_train_cost_from_hook(x, p, corruption_level, hact, vact, cost, hiddens_hook) ==
    LET corrupted_input == <<"salt_and_pepper", x, corruption_level>>
        hiddens == IF Truthy(hiddens_hook) THEN Item(hiddens_hook, 1)
                   ELSE Encode(hact, corrupted_input, p[1], p[3])
        reconstruction == Decode(vact, hiddens, p[1], p[2])
    IN  <<"cost", cost, reconstruction, x>>

\* the training path: corrupt, encode, decode, compare with the input
DAE_train_cost(x, p, corruption_level, hact, vact, cost, hiddens_hook) ==
    LET corrupted_input == <<"salt_and_pepper", x, corruption_level>>
        hiddens == Encode(hact, corrupted_input, p[1], p[3])
        reconstruction == Decode(vact, hiddens, p[1], p[2])
    IN  <<"cost", cost, reconstruction, x>>

\* (variant: the prediction path encodes the corrupted input)
DAE_hiddens_corrupted(x, p, corruption_level, hact, hiddens_hook) ==
    IF Truthy(hiddens_hook) THEN Item(hiddens_hook, 1)
    ELSE Encode(hact, <<"salt_and_pepper", x, corruption_level>>, p[1], p[3])

\* self.hiddens of the prediction path
DAE_hiddens(x, p, corruption_level, hact, hiddens_hook) ==
    IF Truthy(hiddens_hook) THEN Item(hiddens_hook, 1) ELSE Encode(hact, x, p[1], p[3])

\* the compiled predict function: its declared inputs and its output
DAE_f_predict(x, hiddens, recon_predict, hiddens_hook) ==
    IF Truthy(hiddens_hook)
    THEN [inputs |-> <<hiddens>>, outputs |-> recon_predict]
    ELSE [inputs |-> <<x>>, outputs |-> recon_predict]

\* DenoisingAutoencoder.__init__ as call number k
DAE_init(k, c) ==
    LET args == CombineArgs(c.config, DAE_defaults)
        input_size == DAE_size(c.inputs_hook, c.opts.input_size, args, "input_size")
        hidden_size == DAE_size(c.hiddens_hook, c.opts.hidden_size, args, "hidden_size")
        corruption_level == Resolve(c.opts.corruption_level, args, "corruption_level")
        hidden_act_name == Resolve(c.opts.hidden_activation, args, "hidden_activation")
        visible_act_name == Resolve(c.opts.visible_activation, args, "visible_activation")
        cost_func_name == Resolve(c.opts.cost_function, args, "cost_function")
        hact == PyFunc(hidden_act_name[2])
        vact == PyFunc(visible_act_name[2])
        cost == PyFunc(cost_func_name[2])
        x == DAE_x(k, c.inputs_hook)
        made_x == IF Truthy(c.inputs_hook) THEN <<>> ELSE << <<"placeholder", "X">> >>
        p == DAE_params(k, c.params_hook)
        made_p == DAE_param_allocs(c.params_hook, input_size, hidden_size)
        hiddens == DAE_hiddens(x, p, corruption_level, hact, c.hiddens_hook)
        recon_predict == Decode(vact, hiddens, p[1], p[2])
        resolved == [input_size |-> input_size, hidden_size |-> hidden_size,
                     corruption_level |-> corruption_level,
                     hidden_activation |-> hidden_act_name,
                     visible_activation |-> visible_act_name,
                     cost_function |-> cost_func_name]
    IN  IF ~ActivationKnown(hidden_act_name) \/ ~ActivationKnown(visible_act_name)
        THEN Raised("UnsupportedActivationError", <<>>)
        ELSE IF ~CostKnown(cost_func_name)
        THEN Raised("UnsupportedCostError", <<>>)
        ELSE IF Truthy(c.inputs_hook) /\ PyLen(c.inputs_hook) < 2
        THEN Raised("IndexError", <<>>)
        ELSE IF Truthy(c.params_hook) /\ PyLen(c.params_hook) # 3
        THEN Raised("AssertionError", made_x)
        ELSE IF Truthy(c.hiddens_hook) /\ PyLen(c.hiddens_hook) < 2
        THEN Raised("IndexError", made_x \o made_p)
        ELSE Built([kind |-> "DAE",
                    resolved |-> resolved,
                    inputs |-> <<x>>,
                    params |-> p,
                    train_cost |-> DAE_train_cost(x, p, corruption_level, hact, vact,
                                                  cost, c.hiddens_hook),
                    hiddens |-> hiddens,
                    recon_predict |-> recon_predict,
                    f_predict |-> DAE_f_predict(x, hiddens, recon_predict, c.hiddens_hook),
                    output |-> Node(k, "output")],
                   made_x \o made_p)

-----------------------------------------------------------------------------
(* Conv1D and Conv2D *)

Conv1D_defaults ==
    [border_mode |-> PyStr("valid"), weights_init |-> PyStr("uniform"),
     weights_interval |-> PyStr("montreal"), weights_mean |-> PyInt(0),
     weights_std |-> PyFloat(5), bias_init |-> PyFloat(0),
     activation |-> PyFunc("rectifier"), convolution |-> PyFunc("conv1d_mc0")]

Conv2D_defaults ==
    [border_mode |-> PyStr("valid"), weights_init |-> PyStr("uniform"),
     weights_interval |-> PyStr("montreal"), weights_mean |-> PyInt(0),
     weights_std |-> PyFloat(5), bias_init |-> PyFloat(0),
     activation |-> PyFunc("rectifier"), convolution |-> PyFunc("conv2d")]

Min(a, b) == IF a < b THEN a ELSE b

\* str.lower(), on the scheme names the caller uses
Lower(s) ==
    CASE s = "Gaussian" -> "gaussian"
      [] s = "Uniform" -> "uniform"
      [] OTHER -> s

\* v[lo:hi] of a tuple, 0 <= lo <= hi
PySlice(v, lo, hi) == PyTuple(SubSeq(v[2], lo + 1, Min(hi, Len(v[2]))))

\* the length of an axis of extent L sliced [lo:hi], 0 <= lo <= hi
SliceLen(L, lo, hi) == Min(hi, L) - Min(lo, L)

\* the output extent of the convolution along an axis of extent N, kernel K,
\* subsampling s: 'valid' keeps the N - K + 1 full overlaps, 'full' pads K - 1
ConvExtent(N, K, s, mode) ==
    IF mode = "valid" THEN (N - K) \div s + 1 ELSE (N + K - 2) \div s + 1

\* input_shape, with or without an inputs_hook
Conv_input_shape(inputs_hook, input_shape, args) ==
    IF Truthy(inputs_hook)
    THEN Or(Item(inputs_hook, 0), Or(input_shape, Get(args, "input_shape")))
    ELSE Or(input_shape, Get(args, "input_shape"))

\* self.input of call k (the caller has checked the hook's length)
Conv_input(k, inputs_hook) ==
    IF Truthy(inputs_hook) THEN Item(inputs_hook, 1) ELSE Node(k, "X")

Conv_input_allocs(inputs_hook) ==
    IF Truthy(inputs_hook) THEN <<>> ELSE << <<"placeholder", "X">> >>

\* activation given by name (looked up) or as a callable
Conv_activation_error(activation_name) ==
    IF activation_name[1] = "str"
    THEN IF ActivationKnown(activation_name) THEN "" ELSE "UnsupportedActivationError"
    ELSE IF activation_name[1] = "func" THEN "" ELSE "AssertionError"

Conv_activation_func(activation_name) ==
    IF activation_name[1] = "str" THEN PyFunc(activation_name[2]) ELSE activation_name

\* the branch of the weights_init if / elif / else taken without a params_hook
Conv_weights_scheme(weights_init, args) ==
    IF Lower(weights_init[2]) = "gaussian" THEN "gaussian"
    ELSE IF Lower(Get(args, "weights_init")[2]) = "uniform" THEN "uniform"
    ELSE "NotImplementedError"

\* W, b of call k
Conv_params(k, params_hook) ==
    IF Truthy(params_hook)
    THEN <<Item(params_hook, 0), Item(params_hook, 1)>>
    ELSE <<Node(k, "W"), Node(k, "b")>>

\* the allocator calls behind Conv_params
Conv_param_allocs(params_hook, scheme, filter_shape, weights_interval, weights_mean, weights_std, bias_init) ==
    IF Truthy(params_hook) THEN <<>>
    ELSE << IF scheme = "gaussian"
            THEN <<"get_weights_gaussian", "W", filter_shape, weights_mean, weights_std>>
            ELSE <<"get_weights_uniform", "W", filter_shape, weights_interval>>,
            <<"get_bias", "b", PyTuple(<<Item(filter_shape, 0)>>), bias_init>> >>

Conv_node(convolution, input, W, subsample, image_shape, filter_shape, mode) ==
    <<"conv", convolution, input, W, subsample, image_shape, filter_shape, PyStr(mode)>>

Conv_output(activation_func, conved, b) ==
    <<"apply", activation_func, <<"add", conved, <<"dimshuffle", b>>>>>>

\* Conv1D: the extent of the output's convolved axis
Conv1D_extent(input_shape, filter_length, stride, mode) ==
    LET N == Item(input_shape, 2)[2]
        K == filter_length[2]
        shift == (K - 1) \div 2
    IN  IF mode = "same"
        THEN SliceLen(ConvExtent(N, K, stride[2], "full"), shift, N + shift)
        ELSE ConvExtent(N, K, stride[2], mode)

\* Conv1D.__init__ as call number k
Conv1D_init(k, c) ==
    LET args == CombineArgs(c.config, Conv1D_defaults)
        input_shape == Conv_input_shape(c.inputs_hook, c.opts.input_shape, args)
        input == Conv_input(k, c.inputs_hook)
        made_x == Conv_input_allocs(c.inputs_hook)
        activation_name == Resolve(c.opts.activation, args, "activation")
        activation_func == Conv_activation_func(activation_name)
        filter_shape == Resolve(c.opts.filter_shape, args, "filter_shape")
        filter_length == Item(filter_shape, 2)
        stride == Resolve(c.opts.stride, args, "stride")
        border_mode == Resolve(c.opts.border_mode, args, "border_mode")
        convolution == Resolve(c.opts.convolution, args, "convolution")
        weights_init == Resolve(c.opts.weights_init, args, "weights_init")
        weights_interval == Resolve(c.opts.weights_interval, args, "weights_interval")
        weights_mean == Resolve(c.opts.weights_mean, args, "weights_mean")
        weights_std == Resolve(c.opts.weights_std, args, "weights_std")
        scheme == Conv_weights_scheme(weights_init, args)
        p == Conv_params(k, c.params_hook)
        made_p == Conv_param_allocs(c.params_hook, scheme, filter_shape, weights_interval,
                                    weights_mean, weights_std, c.opts.bias_init)
        same == border_mode = PyStr("same")
        conved == Conv_node(convolution, input, p[1], PyTuple(<<stride>>), input_shape,
                            filter_shape, IF same THEN "full" ELSE border_mode[2])
        shift == (filter_length[2] - 1) \div 2
        cropped == IF same
                   THEN <<"crop", conved, <<shift, Item(input_shape, 2)[2] + shift>>>>
                   ELSE conved
        resolved == [input_shape |-> input_shape, activation |-> activation_name,
                     filter_shape |-> filter_shape, stride |-> stride,
                     border_mode |-> border_mode, convolution |-> convolution,
                     weights_init |-> weights_init, weights_interval |-> weights_interval,
                     weights_mean |-> weights_mean, weights_std |-> weights_std,
                     bias_init |-> c.opts.bias_init]
    IN  IF Truthy(c.inputs_hook) /\ PyLen(c.inputs_hook) # 2
        THEN Raised("AssertionError", <<>>)
        ELSE IF Conv_activation_error(activation_name) # ""
        THEN Raised(Conv_activation_error(activation_name), made_x)
        ELSE IF filter_shape = None
        THEN Raised("TypeError", made_x)
        ELSE IF PyLen(filter_shape) < 3
        THEN Raised("IndexError", made_x)
        ELSE IF Truthy(c.params_hook) /\ PyLen(c.params_hook) # 2
        THEN Raised("AssertionError", made_x)
        ELSE IF ~Truthy(c.params_hook) /\ scheme = "NotImplementedError"
        THEN Raised("NotImplementedError", made_x)
        ELSE IF border_mode \notin {PyStr("valid"), PyStr("full"), PyStr("same")}
        THEN Raised("RuntimeError", made_x \o made_p)
        ELSE IF same /\ input_shape = None
        THEN Raised("TypeError", made_x \o made_p)
        ELSE Built([kind |-> "Conv1D",
                    resolved |-> resolved,
                    inputs |-> <<input>>,
                    params |-> p,
                    extents |-> IF input_shape = None \/ stride = None THEN <<>>
                                ELSE <<Conv1D_extent(input_shape, filter_length, stride,
                                                     border_mode[2])>>,
                    output_expr |-> Conv_output(activation_func, cropped, p[2]),
                    output |-> Node(k, "output")],
                   made_x \o made_p)

\* Conv2D: the extents of the output's two convolved axes
Conv2D_extents(input_shape, filter_shape, filter_size, strides, mode) ==
    [a \in 1..2 |->
        LET N == Item(input_shape, a + 1)[2]
        IN  IF mode = "same"
            THEN LET shift == (Item(filter_size, a - 1)[2] - 1) \div 2
                 IN  SliceLen(ConvExtent(N, Item(filter_shape, a + 1)[2],
                                         Item(strides, a - 1)[2], "full"),
                              shift, N + shift)
            ELSE ConvExtent(N, Item(filter_shape, a + 1)[2], Item(strides, a - 1)[2], mode)]

\* Conv2D.__init__ as call number k
Conv2D_init(k, c) ==
    LET args == CombineArgs(c.config, Conv2D_defaults)
        input_shape == Conv_input_shape(c.inputs_hook, c.opts.input_shape, args)
        input == Conv_input(k, c.inputs_hook)
        made_x == Conv_input_allocs(c.inputs_hook)
        activation_name == Resolve(c.opts.activation, args, "activation")
        activation_func == Conv_activation_func(activation_name)
        filter_shape == Resolve(c.opts.filter_shape, args, "filter_shape")
        filter_size == PySlice(filter_shape, 2, 3)
        strides == Resolve(c.opts.strides, args, "strides")
        border_mode == Resolve(c.opts.border_mode, args, "border_mode")
        convolution == Resolve(c.opts.convolution, args, "convolution")
        weights_init == Resolve(c.opts.weights_init, args, "weights_init")
        weights_interval == Resolve(c.opts.weights_interval, args, "weights_interval")
        weights_mean == Resolve(c.opts.weights_mean, args, "weights_mean")
        weights_std == Resolve(c.opts.weights_std, args, "weights_std")
        scheme == Conv_weights_scheme(weights_init, args)
        p == Conv_params(k, c.params_hook)
        made_p == Conv_param_allocs(c.params_hook, scheme, filter_shape, weights_interval,
                                    weights_mean, weights_std, c.opts.bias_init)
        same == border_mode = PyStr("same")
        conved == Conv_node(convolution, input, p[1], strides, input_shape,
                            filter_shape, IF same THEN "full" ELSE border_mode[2])
        shift_x == (Item(filter_size, 0)[2] - 1) \div 2
        shift_y == (Item(filter_size, 1)[2] - 1) \div 2
        cropped == IF same
                   THEN <<"crop", conved,
                          <<shift_x, Item(input_shape, 2)[2] + shift_x>>,
                          <<shift_y, Item(input_shape, 3)[2] + shift_y>>>>
                   ELSE conved
        resolved == [input_shape |-> input_shape, activation |-> activation_name,
                     filter_shape |-> filter_shape, strides |-> strides,
                     border_mode |-> border_mode, convolution |-> convolution,
                     weights_init |-> weights_init, weights_interval |-> weights_interval,
                     weights_mean |-> weights_mean, weights_std |-> weights_std,
                     bias_init |-> c.opts.bias_init]
    IN  IF Truthy(c.inputs_hook) /\ PyLen(c.inputs_hook) # 2
        THEN Raised("AssertionError", <<>>)
        ELSE IF Conv_activation_error(activation_name) # ""
        THEN Raised(Conv_activation_error(activation_name), made_x)
        ELSE IF filter_shape = None
        THEN Raised("TypeError", made_x)
        ELSE IF PyLen(filter_shape) < 1
        THEN Raised("IndexError", made_x)
        ELSE IF Truthy(c.params_hook) /\ PyLen(c.params_hook) # 2
        THEN Raised("AssertionError", made_x)
        ELSE IF ~Truthy(c.params_hook) /\ scheme = "NotImplementedError"
        THEN Raised("NotImplementedError", made_x)
        ELSE IF border_mode \notin {PyStr("valid"), PyStr("full"), PyStr("same")}
        THEN Raised("RuntimeError", made_x \o made_p)
        ELSE IF same /\ PyLen(filter_size) < 2
        THEN Raised("IndexError", made_x \o made_p)
        ELSE IF same /\ input_shape = None
        THEN Raised("TypeError", made_x \o made_p)
        ELSE Built([kind |-> "Conv2D",
                    resolved |-> resolved,
                    inputs |-> <<input>>,
                    params |-> p,
                    extents |-> IF input_shape = None \/ strides = None THEN <<>>
                                ELSE Conv2D_extents(input_shape, filter_shape, filter_size,
                                                    strides, border_mode[2]),
                    output_expr |-> Conv_output(activation_func, cropped, p[2]),
                    output |-> Node(k, "output")],
                   made_x \o made_p)

-----------------------------------------------------------------------------
(* ConvPoolLayer *)

ConvPool_defaults ==
    [filter_shape |-> Shape(<<96, 3, 11, 11>>), convstride |-> PyInt(4),
     padsize |-> PyInt(0), group |-> PyInt(1), poolsize |-> PyInt(3),
     poolstride |-> PyInt(2), bias_init |-> PyInt(0),
     local_response_normalization |-> PyBool(FALSE),
     convolution |-> PyFunc("conv2d"), activation |-> PyStr("rectifier")]

\* v == i for a Python number v and an int i (True == 1, 1.0 == 1)
NumEq(v, i) ==
    CASE v[1] = "int" -> v[2] = i
      [] v[1] = "float" -> v[2] = 1000 * i
      [] v[1] = "bool" -> (IF v[2] THEN 1 ELSE 0) = i
      [] OTHER -> FALSE

\* self.group in [1, 2]
ConvPool_group_ok(group) == NumEq(group, 1) \/ NumEq(group, 2)

\* the numpy array of a shape after shape[0] /= 2, shape[1] /= 2 (in place)
ConvPool_halved(shape) ==
    <<shape[1], [i \in DOMAIN shape[2] |->
                    IF i <= 2 THEN PyInt(shape[2][i][2] \div 2) ELSE shape[2][i]]>>

\* len(params_hook) the group asks for
ConvPool_params_count(group) == IF NumEq(group, 1) THEN 2 ELSE 4

\* self.params of call k: [W, b], or [W0, b0, W1, b1] with
\* W0, W1, b0, b1 = params_hook
ConvPool_params(k, group, params_hook) ==
    IF NumEq(group, 1)
    THEN IF Truthy(params_hook)
         THEN <<Item(params_hook, 0), Item(params_hook, 1)>>
         ELSE <<Node(k, "W"), Node(k, "b")>>
    ELSE IF Truthy(params_hook)
         THEN <<Item(params_hook, 0), Item(params_hook, 2),
                Item(params_hook, 1), Item(params_hook, 3)>>
         ELSE <<Node(k, "W0"), Node(k, "b0"), Node(k, "W1"), Node(k, "b1")>>

\* the allocator calls behind ConvPool_params (filter_shape already halved for
\* group 2)
ConvPool_param_allocs(group, params_hook, filter_shape, bias_init) ==
    IF Truthy(params_hook) THEN <<>>
    ELSE IF NumEq(group, 1)
    THEN << <<"get_weights_gaussian", "W", filter_shape, PyInt(0), PyFloat(10)>>,
            <<"get_bias", "b", Item(filter_shape, 0), bias_init>> >>
    ELSE << <<"get_weights_gaussian", "W0", filter_shape, None, None>>,
            <<"get_weights_gaussian", "W1", filter_shape, None, None>>,
            <<"get_bias", "b0", Item(filter_shape, 0), bias_init>>,
            <<"get_bias", "b1", Item(filter_shape, 0), bias_init>> >>

ConvPool_conv(convolution, img, kerns, convstride, padsize, b) ==
    <<"add",
      <<"conv", convolution, img, kerns, PyTuple(<<convstride, convstride>>),
        PyTuple(<<padsize, padsize>>)>>,
      <<"dimshuffle", b>>>>

\* build_computation_graph: convolution (+ bias), activation, pooling
ConvPool_build_computation_graph(group, input, channel, p, convolution, convstride, padsize, activation_func, poolsize, poolstride) ==
    LET half == channel[2] \div 2
        conv_out ==
            IF NumEq(group, 1)
            THEN ConvPool_conv(convolution, input, p[1], convstride, padsize, p[2])
            ELSE <<"concatenate",
                   ConvPool_conv(convolution, <<"channels_to", input, half>>, p[1],
                                 convstride, padsize, p[2]),
                   ConvPool_conv(convolution, <<"channels_from", input, half>>, p[3],
                                 convstride, padsize, p[4])>>
        output == <<"apply", activation_func, conv_out>>
    IN  IF ~NumEq(poolsize, 1)
        THEN <<"pool", output, PyTuple(<<poolsize, poolsize>>),
               PyTuple(<<poolstride, poolstride>>)>>
        ELSE output

\* the exception raised before the parameters are dealt with ("": none): the
\* inputs_hook assertion, the activation lookup, input_shape[1], the group assertion
ConvPool_config_error(c) ==
    LET args == CombineArgs(c.config, ConvPool_defaults)
        input_shape0 == Conv_input_shape(c.inputs_hook, c.opts.input_shape, args)
        activation_name == Resolve(c.opts.activation, args, "activation")
        group == Resolve(c.opts.group, args, "group")
    IN  IF Truthy(c.inputs_hook) /\ PyLen(c.inputs_hook) # 2 THEN "AssertionError"
        ELSE IF Conv_activation_error(activation_name) # ""
        THEN Conv_activation_error(activation_name)
        ELSE IF input_shape0 = None THEN "TypeError"
        ELSE IF PyLen(input_shape0) < 2 THEN "IndexError"
        ELSE IF ~ConvPool_group_ok(group) THEN "AssertionError"
        ELSE ""

\* the caller's array after the call: self.args holds the config's values
\* themselves, numpy.asarray of an array is that array, and with two groups its
\* first two entries are halved in place
ConvPool_array_after(c, array) ==
    LET args == CombineArgs(c.config, ConvPool_defaults)
        filter_shape0 == Resolve(c.opts.filter_shape, args, "filter_shape")
        group == Resolve(c.opts.group, args, "group")
    IN  IF ConvPool_config_error(c) = "" /\ ~NumEq(group, 1) /\ IsArray(filter_shape0)
        THEN ConvPool_halved(array)
        ELSE array

\* ConvPoolLayer.__init__ as call number k
ConvPool_init(k, c) ==
    LET args == CombineArgs(c.config, ConvPool_defaults)
        input_shape0 == Conv_input_shape(c.inputs_hook, c.opts.input_shape, args)
        input == Conv_input(k, c.inputs_hook)
        made_x == Conv_input_allocs(c.inputs_hook)
        activation_name == Resolve(c.opts.activation, args, "activation")
        activation_func == Conv_activation_func(activation_name)
        convolution == Resolve(c.opts.convolution, args, "convolution")
        filter_shape0 == Resolve(c.opts.filter_shape, args, "filter_shape")
        convstride == Resolve(c.opts.convstride, args, "convstride")
        padsize == Resolve(c.opts.padsize, args, "padsize")
        poolsize == Resolve(c.opts.poolsize, args, "poolsize")
        poolstride == Resolve(c.opts.poolstride, args, "poolstride")
        channel == Item(input_shape0, 1)
        lrn == Resolve(c.opts.local_response_normalization, args,
                       "local_response_normalization")
        group == Resolve(c.opts.group, args, "group")
        filter_shape == IF NumEq(group, 1) THEN AsArray(filter_shape0)
                        ELSE ConvPool_halved(AsArray(filter_shape0))
        input_shape == IF NumEq(group, 1) THEN AsArray(input_shape0)
                       ELSE ConvPool_halved(AsArray(input_shape0))
        p == ConvPool_params(k, group, c.params_hook)
        made_p == ConvPool_param_allocs(group, c.params_hook, filter_shape,
                                        c.opts.bias_init)
        graph == ConvPool_build_computation_graph(group, input, channel, p, convolution,
                     convstride, padsize, activation_func, poolsize, poolstride)
        resolved == [input_shape |-> input_shape0, activation |-> activation_name,
                     convolution |-> convolution, filter_shape |-> filter_shape0,
                     convstride |-> convstride, padsize |-> padsize,
                     poolsize |-> poolsize, poolstride |-> poolstride,
                     local_response_normalization |-> lrn, group |-> group,
                     bias_init |-> c.opts.bias_init]
    IN  IF ConvPool_config_error(c) # ""
        THEN Raised(ConvPool_config_error(c), made_x)
        ELSE IF Truthy(c.params_hook) /\ PyLen(c.params_hook) # ConvPool_params_count(group)
        THEN Raised("AssertionError", made_x)
        ELSE Built([kind |-> "ConvPoolLayer",
                    resolved |-> resolved,
                    inputs |-> <<input>>,
                    params |-> p,
                    filter_shape |-> filter_shape,
                    input_shape |-> input_shape,
                    channel |-> channel,
                    output_expr |-> IF Truthy(lrn) THEN <<"lrn", graph>> ELSE graph,
                    output |-> Node(k, "output")],
                   made_x \o made_p)

-----------------------------------------------------------------------------
(* The caller *)

\* an inputs_hook handed to call number k: (shape, tensor), the tensor being the
\* output of the layer built before, or a tensor of the caller's when there is none
HookTensor == IF upstream = NoNode THEN ExtInput ELSE upstream

\* hooks that are not a (shape, tensor) pair: empty, the shape alone, one
\* element too many
Malformed(s) ==
    {PyTuple(<<>>), PyTuple(<<s>>), PyTuple(<<s, HookTensor, HookTensor>>)}

InputsHooks(shapes) == {None} \cup {PyTuple(<<s, HookTensor>>) : s \in shapes}

\* a params_hook: a list of i of the caller's parameters
ParamsOfLen(i) == PyList([j \in 1..i |-> ExtParam(j)])

ParamsHooks(lens) == {None} \cup {ParamsOfLen(i) : i \in lens}

DAE_Opts(corruption_levels) ==
    [input_size : {None}, hidden_size : {None},
     corruption_level : corruption_levels,
     hidden_activation : {None}, visible_activation : {None},
     cost_function : {None}]

DAE_Configs == {EmptyDict, [corruption_level |-> PyFloat(200)]}

\* malformed hooks are handed to calls that leave everything else out
DAE_Calls ==
    [kind : {"DAE"},
     config : DAE_Configs,
     inputs_hook : InputsHooks({PyInt(5)}),
     hiddens_hook : {None, PyTuple(<<PyInt(3), ExtHidden>>)},
     params_hook : ParamsHooks({0, 2, 3, 4}),
     opts : DAE_Opts({None, PyFloat(0), PyFloat(1000)})]
    \cup
    [kind : {"DAE"},
     config : {EmptyDict},
     inputs_hook : Malformed(PyInt(5)),
     hiddens_hook : {None},
     params_hook : {None},
     opts : DAE_Opts({None})]

\* the input shape comes with the hook or as the argument, not both
ShapeByHookOrArgument(c) == (c.inputs_hook = None) <=> (c.opts.input_shape # None)

\* weight initialisation options are varied where parameters are allocated
InitOptionsWithoutHook(c) ==
    c.params_hook # None => (c.opts.weights_init = None /\ c.config = EmptyDict)

\* a call that leaves the options with defaults to the defaults
PlainConv(c) ==
    /\ c.config = EmptyDict /\ c.params_hook = None
    /\ c.opts.weights_init = None /\ c.opts.border_mode = None

Conv_Configs == {EmptyDict, [weights_init |-> PyStr("gaussian")]}

Conv_WeightsInits == {None, PyStr("Gaussian"), PyStr("uniform"), PyStr("foo")}

Conv_BorderModes == {None, PyStr("same"), PyStr("bogus")}

Conv1D_Opts(input_shapes, filter_shapes, strides, weights_inits, border_modes) ==
    [input_shape : input_shapes,
     filter_shape : filter_shapes,
     stride : strides,
     weights_init : weights_inits,
     weights_interval : {None}, weights_mean : {None}, weights_std : {None},
     bias_init : {None},
     border_mode : border_modes,
     activation : {None}, convolution : {None}]

\* the kernel extent is varied for 'same'; a missing stride and a malformed
\* hook go with calls that leave the other options out
Conv1D_Calls ==
    {c \in [kind : {"Conv1D"},
            config : Conv_Configs,
            inputs_hook : InputsHooks({Shape(<<1, 1, 4>>)}),
            params_hook : ParamsHooks({0, 1, 2, 3}),
            opts : Conv1D_Opts({None, Shape(<<1, 1, 4>>)},
                               {Shape(<<2, 1, K>>) : K \in 1..MaxK}, {PyInt(1)},
                               Conv_WeightsInits, Conv_BorderModes)] :
        /\ ShapeByHookOrArgument(c)
        /\ InitOptionsWithoutHook(c)
        /\ (c.opts.border_mode # PyStr("same") => c.opts.filter_shape = Shape(<<2, 1, 1>>))}
    \cup
    {c \in [kind : {"Conv1D"},
            config : {EmptyDict},
            inputs_hook : InputsHooks({Shape(<<1, 1, 4>>)}),
            params_hook : {None},
            opts : Conv1D_Opts({None, Shape(<<1, 1, 4>>)}, {Shape(<<2, 1, 1>>)}, {None},
                               {None}, {None})] :
        ShapeByHookOrArgument(c) /\ PlainConv(c)}
    \cup
    [kind : {"Conv1D"},
     config : {EmptyDict},
     inputs_hook : Malformed(Shape(<<1, 1, 4>>)),
     params_hook : {None},
     opts : Conv1D_Opts({None}, {Shape(<<2, 1, 1>>)}, {PyInt(1)}, {None}, {None})]

Conv2D_Opts(input_shapes, filter_shapes, strides, weights_inits, border_modes) ==
    [input_shape : input_shapes,
     filter_shape : filter_shapes,
     strides : strides,
     weights_init : weights_inits,
     weights_interval : {None}, weights_mean : {None}, weights_std : {None},
     bias_init : {None},
     border_mode : border_modes,
     activation : {None}, convolution : {None}]

Conv2D_Calls ==
    {c \in [kind : {"Conv2D"},
            config : Conv_Configs,
            inputs_hook : InputsHooks({Shape(<<1, 1, 4, 4>>)}),
            params_hook : ParamsHooks({0, 1, 2, 3}),
            opts : Conv2D_Opts({None, Shape(<<1, 1, 4, 4>>)},
                               {Shape(<<2, 1, K, MaxK + 1 - K>>) : K \in 1..MaxK},
                               {PyTuple(<<PyInt(1), PyInt(1)>>)},
                               Conv_WeightsInits, Conv_BorderModes)] :
        /\ ShapeByHookOrArgument(c)
        /\ InitOptionsWithoutHook(c)
        /\ (c.opts.border_mode # PyStr("same")
               => c.opts.filter_shape = Shape(<<2, 1, 1, MaxK>>))}
    \cup
    {c \in [kind : {"Conv2D"},
            config : {EmptyDict},
            inputs_hook : InputsHooks({Shape(<<1, 1, 4, 4>>)}),
            params_hook : {None},
            opts : Conv2D_Opts({None, Shape(<<1, 1, 4, 4>>)}, {Shape(<<2, 1, 1, MaxK>>)},
                               {None}, {None}, {None})] :
        ShapeByHookOrArgument(c) /\ PlainConv(c)}
    \cup
    [kind : {"Conv2D"},
     config : {EmptyDict},
     inputs_hook : Malformed(Shape(<<1, 1, 4, 4>>)),
     params_hook : {None},
     opts : Conv2D_Opts({None}, {Shape(<<2, 1, 1, MaxK>>)},
                        {PyTuple(<<PyInt(1), PyInt(1)>>)}, {None}, {None})]

ConvPool_Opts(input_shapes, filter_shapes, groups, poolsizes, lrns) ==
    [input_shape : input_shapes,
     filter_shape : filter_shapes,
     convstride : {None}, padsize : {None},
     group : groups,
     poolsize : poolsizes, poolstride : {None}, bias_init : {None},
     local_response_normalization : lrns,
     convolution : {None}, activation : {None}]

\* a call that asks for two groups and leaves the rest to the defaults
PlainGroupTwo(c) ==
    /\ c.opts.group = PyInt(2) /\ c.config = EmptyDict /\ c.params_hook = None
    /\ c.opts.local_response_normalization = None /\ c.opts.poolsize = None

\* a call that varies the stages after the convolution only
PlainStages(c) ==
    /\ c.params_hook = None /\ c.opts.group \in {None, PyInt(2)}
    /\ c.opts.filter_shape = Shape(<<4, 4, 3, 3>>)

\* a config whose filter_shape is the array the caller keeps
ArrayConfig == [filter_shape |-> caller_filter_shape]

ConvPool_Configs ==
    {EmptyDict, [group |-> PyInt(2)], [local_response_normalization |-> PyBool(TRUE)]}

ConvPool_InputShapes == {None, Shape(<<2, 4, 8, 8>>)}

\* the calls that vary the group and the params_hook; an odd filter count with
\* two groups; the calls that vary the pool size and the normalization; the
\* calls whose filter_shape is the caller's array in the config; the calls with
\* a malformed hook
ConvPool_Calls ==
    {c \in [kind : {"ConvPoolLayer"},
            config : ConvPool_Configs,
            inputs_hook : InputsHooks({Shape(<<2, 4, 8, 8>>)}),
            params_hook : ParamsHooks(0..5),
            opts : ConvPool_Opts(ConvPool_InputShapes, {Shape(<<4, 4, 3, 3>>)},
                                 {None, PyInt(0), PyInt(2), PyInt(3)}, {None},
                                 {None, PyBool(FALSE)})] :
        /\ ShapeByHookOrArgument(c)
        /\ (c.params_hook # None =>
               /\ c.config = EmptyDict
               /\ c.opts.group \in {None, PyInt(2)}
               /\ c.opts.local_response_normalization = None)}
    \cup
    {c \in [kind : {"ConvPoolLayer"},
            config : {EmptyDict},
            inputs_hook : InputsHooks({Shape(<<2, 4, 8, 8>>)}),
            params_hook : {None},
            opts : ConvPool_Opts(ConvPool_InputShapes, {Shape(<<5, 4, 3, 3>>)},
                                 {PyInt(2)}, {None}, {None})] :
        ShapeByHookOrArgument(c) /\ PlainGroupTwo(c)}
    \cup
    {c \in [kind : {"ConvPoolLayer"},
            config : ConvPool_Configs,
            inputs_hook : InputsHooks({Shape(<<2, 4, 8, 8>>)}),
            params_hook : {None},
            opts : ConvPool_Opts(ConvPool_InputShapes, {Shape(<<4, 4, 3, 3>>)},
                                 {None, PyInt(2)}, {None, PyInt(1)},
                                 {None, PyBool(FALSE), PyBool(TRUE)})] :
        ShapeByHookOrArgument(c) /\ PlainStages(c)}
    \cup
    {c \in [kind : {"ConvPoolLayer"},
            config : {ArrayConfig},
            inputs_hook : InputsHooks({Shape(<<2, 4, 8, 8>>)}),
            params_hook : {None, ParamsOfLen(3)},
            opts : ConvPool_Opts(ConvPool_InputShapes, {None}, {None, PyInt(2)},
                                 {None}, {None})] :
        ShapeByHookOrArgument(c)}
    \cup
    [kind : {"ConvPoolLayer"},
     config : {EmptyDict},
     inputs_hook : Malformed(Shape(<<2, 4, 8, 8>>)),
     params_hook : {None},
     opts : ConvPool_Opts({None}, {Shape(<<4, 4, 3, 3>>)}, {None}, {None}, {None})]

NoCall == [kind |-> "none"]

Init ==
    /\ n = 0
    /\ upstream = NoNode
    /\ last = [call |-> NoCall, result |-> Raised("none", <<>>)]
    /\ caller_filter_shape = PyArray(<<4, 4, 3, 3>>)

\* an exception raised by a constructor is not caught: it ends the run
Running == last.result.status \in {"none", "ok"}

\* after a call: a built layer becomes the one later hooks chain from
After(c, r) ==
    /\ n' = n + 1
    /\ last' = [call |-> c, result |-> r]
    /\ upstream' = IF r.status = "ok" THEN r.layer.output ELSE upstream

ConstructDAE ==
    /\ Running /\ n < MaxLayers
    /\ \E c \in DAE_Calls : After(c, DAE_init(n + 1, c))
    /\ UNCHANGED caller_filter_shape

ConstructConv1D ==
    /\ Running /\ n < MaxLayers
    /\ \E c \in Conv1D_Calls : After(c, Conv1D_init(n + 1, c))
    /\ UNCHANGED caller_filter_shape

ConstructConv2D ==
    /\ Running /\ n < MaxLayers
    /\ \E c \in Conv2D_Calls : After(c, Conv2D_init(n + 1, c))
    /\ UNCHANGED caller_filter_shape

ConstructConvPool ==
    /\ Running /\ n < MaxLayers
    /\ \E c \in ConvPool_Calls :
          /\ After(c, ConvPool_init(n + 1, c))
          /\ caller_filter_shape' = ConvPool_array_after(c, caller_filter_shape)

Next ==
    \/ ConstructDAE
    \/ ConstructConv1D
    \/ ConstructConv2D
    \/ ConstructConvPool

Spec == Init /\ [][Next]_vars

-----------------------------------------------------------------------------
(* Properties *)

Called(kind) == last.call.kind = kind
BuiltLayer == last.result.status = "ok"
IsPair(hook) == hook # None /\ PyLen(hook) = 2

DefaultsOf(kind) ==
    CASE kind = "DAE" -> DAE_defaults
      [] kind = "Conv1D" -> Conv1D_defaults
      [] kind = "Conv2D" -> Conv2D_defaults
      [] kind = "ConvPoolLayer" -> ConvPool_defaults

\* what the caller asked for: the explicit argument unless it is None, else the
\* config's value, else the defaults' value
Requested(c, name) ==
    IF c.opts[name] # None THEN c.opts[name]
    ELSE Get(CombineArgs(c.config, DefaultsOf(c.kind)), name)

\* options whose value a hook's shape replaces
ShapeOptions == {"input_size", "hidden_size", "input_shape"}

\* C1: every option a built layer consumed has the value of the explicit
\* argument when that is not None (0, 0.0 and False included), else the config's,
\* else the defaults'.
C1_ExplicitOverConfigOverDefaults ==
    (last.call.kind # "none" /\ BuiltLayer) =>
        \A name \in (DOMAIN last.call.opts) \ ShapeOptions :
            last.result.layer.resolved[name] = Requested(last.call, name)

\* the parameter count a layer type requires
RequiredParams(c) ==
    CASE c.kind = "DAE" -> 3
      [] c.kind \in {"Conv1D", "Conv2D"} -> 2
      [] c.kind = "ConvPoolLayer" -> IF NumEq(Requested(c, "group"), 2) THEN 4 ELSE 2

\* C2: a params_hook of any length other than the required count (the empty
\* sequence included) fails construction with the parameter-count error.
C2_WrongCountAlwaysFails ==
    (last.call.kind # "none" /\ last.call.params_hook # None
        /\ PyLen(last.call.params_hook) # RequiredParams(last.call))
    => (last.result.status = "AssertionError" /\ last.result.layer = NoLayer)

\* C3: with a params_hook of the required length, get_params() of the built
\* layer is the hook's sequence: the same objects in the same order.
C3_ParamsRoundTrip ==
    (last.call.kind # "none" /\ BuiltLayer /\ last.call.params_hook # None
        /\ PyLen(last.call.params_hook) = RequiredParams(last.call))
    => last.result.layer.params = last.call.params_hook[2]

\* get_inputs() / get_outputs() / get_params() / get_hiddens() / get_train_cost()
get_inputs(layer) == layer.inputs
get_outputs(layer) == layer.output
get_params(layer) == layer.params
get_hiddens(layer) == layer.hiddens
get_train_cost(layer) == layer.train_cost

PlaceholderAllocated(r) == \E i \in DOMAIN r.allocs : r.allocs[i][1] = "placeholder"

\* the tensor the training path (autoencoder) or the convolution (the others)
\* reads: the operand of the noise, respectively the image of the convolution
DAE_TrainHiddens(layer) == layer.train_cost[3][3][2][2]

DAE_TrainCorrupted(layer) == DAE_TrainHiddens(layer)[3][2][2]

ConvImage(expr) ==
    IF expr[1] = "conv" THEN expr[3]
    ELSE IF expr[1] = "crop" THEN expr[2][3]
    ELSE NoNode

ConvPoolImages(expr) ==
    LET pooled == IF expr[1] = "lrn" THEN expr[2] ELSE expr
        activated == IF pooled[1] = "pool" THEN pooled[2] ELSE pooled
        conv_out == activated[3]
    IN  IF conv_out[1] = "concatenate"
        THEN {conv_out[2][2][3][2], conv_out[3][2][3][2]}
        ELSE {conv_out[2][3]}

GraphReads(layer) ==
    CASE layer.kind = "DAE" ->
            IF DAE_TrainHiddens(layer)[1] = "apply"
            THEN {DAE_TrainCorrupted(layer)[2], layer.train_cost[4]}
            ELSE {layer.train_cost[4]}
      [] layer.kind \in {"Conv1D", "Conv2D"} -> {ConvImage(layer.output_expr[3][2])}
      [] layer.kind = "ConvPoolLayer" -> ConvPoolImages(layer.output_expr)

WithoutHiddensHook(c) == [c EXCEPT !.hiddens_hook = None]

\* C5: a DenoisingAutoencoder built with a hiddens_hook has the training cost of
\* the one built from the same arguments without it: cost(decode(encode(
\* corrupted input)), input); the hook's tensor is not in it.
C5_TrainCostIgnoresHiddensHook ==
    (Called("DAE") /\ BuiltLayer /\ IsPair(last.call.hiddens_hook)) =>
        LET layer == last.result.layer
            twin == DAE_init(n, WithoutHiddensHook(last.call)).layer
            x == layer.inputs[1]
            W == layer.params[1]
            b0 == layer.params[2]
            b1 == layer.params[3]
            hact == PyFunc(layer.resolved.hidden_activation[2])
            vact == PyFunc(layer.resolved.visible_activation[2])
            cost == PyFunc(layer.resolved.cost_function[2])
            corrupted == <<"salt_and_pepper", x, layer.resolved.corruption_level>>
        IN  /\ twin.params = layer.params /\ twin.inputs = layer.inputs
            /\ get_train_cost(layer) = get_train_cost(twin)
            /\ get_train_cost(layer) =
                  <<"cost", cost, Decode(vact, Encode(hact, corrupted, W, b1), W, b0), x>>

C5_Witness ==
    /\ Called("DAE") /\ BuiltLayer /\ IsPair(last.call.hiddens_hook)
    /\ last.result.layer.hiddens = ExtHidden

\* C6: predict of a DenoisingAutoencoder built with a hiddens_hook takes the
\* hook's tensor as its only input and get_hiddens() is that tensor; built
\* without one it takes the input tensor and the hiddens are the encoding of
\* the clean input; the reconstruction is the decoding of these hiddens, without
\* a corruption step.
C6_PredictPath ==
    (Called("DAE") /\ BuiltLayer) =>
        LET layer == last.result.layer
            hook == last.call.hiddens_hook
            x == layer.inputs[1]
            W == layer.params[1]
            b0 == layer.params[2]
            b1 == layer.params[3]
            hact == PyFunc(layer.resolved.hidden_activation[2])
            vact == PyFunc(layer.resolved.visible_activation[2])
        IN  /\ IsPair(hook) =>
                  /\ layer.f_predict.inputs = <<Item(hook, 1)>>
                  /\ get_hiddens(layer) = Item(hook, 1)
            /\ hook = None =>
                  /\ layer.f_predict.inputs = <<x>>
                  /\ get_hiddens(layer) = Encode(hact, x, W, b1)
            /\ layer.recon_predict = Decode(vact, get_hiddens(layer), W, b0)
            /\ layer.f_predict.outputs = layer.recon_predict

C6_Witness ==
    /\ Called("DAE") /\ BuiltLayer /\ IsPair(last.call.hiddens_hook)
    /\ last.result.layer.f_predict.inputs = <<ExtHidden>>

\* C7: the level handed to the salt-and-pepper noise of the training path is the
\* corruption_level the caller requested (0: the input is left as it is, 1: every
\* element is replaced).
C7_NoiseLevelIsRequested ==
    (Called("DAE") /\ BuiltLayer /\ last.call.opts.corruption_level # None) =>
        DAE_TrainCorrupted(last.result.layer)
            = <<"salt_and_pepper", last.result.layer.inputs[1],
                last.call.opts.corruption_level>>

\* the extents of the convolved axes of the input shape of a call
InputExtents(c) ==
    LET shape == IF c.inputs_hook # None THEN Item(c.inputs_hook, 0)
                 ELSE c.opts.input_shape
    IN  [a \in 1..(PyLen(shape) - 2) |-> shape[2][a + 2][2]]

\* C8: Conv1D / Conv2D with border_mode 'same' are built, and the output has the
\* input's extent along every convolved axis, for odd and even kernel extents.
C8_SameKeepsExtent ==
    (last.call.kind \in {"Conv1D", "Conv2D"}
        /\ last.call.opts.border_mode = PyStr("same")
        /\ last.call.params_hook = None
        /\ last.call.opts.weights_init = None /\ last.call.config = EmptyDict)
    => /\ BuiltLayer
       /\ last.result.layer.extents = InputExtents(last.call)

\* C9: without a params_hook, Conv1D / Conv2D initialise the weights by the
\* requested weights_init (argument over config over defaults): Gaussian for
\* 'gaussian', uniform for 'uniform', and any other name fails construction.
C9_WeightsInitIsRequested ==
    (last.call.kind \in {"Conv1D", "Conv2D"}
        /\ last.call.params_hook = None /\ last.call.opts.border_mode = None)
    => LET scheme == Lower(Requested(last.call, "weights_init")[2])
           made == {last.result.allocs[i][1] : i \in DOMAIN last.result.allocs}
       IN  CASE scheme = "gaussian" -> BuiltLayer /\ "get_weights_gaussian" \in made
             [] scheme = "uniform" -> BuiltLayer /\ "get_weights_uniform" \in made
             [] OTHER -> last.result.status = "NotImplementedError"
                          /\ last.result.layer = NoLayer

\* C10: a ConvPoolLayer is built only when the requested group is 1 or 2; any
\* other requested group fails validation and yields no layer.
C10_GroupIsOneOrTwo ==
    Called("ConvPoolLayer") =>
        LET group == Requested(last.call, "group")
        IN  /\ BuiltLayer => (NumEq(group, 1) \/ NumEq(group, 2))
            /\ ~(NumEq(group, 1) \/ NumEq(group, 2)) =>
                  (last.result.status = "AssertionError" /\ last.result.layer = NoLayer)

\* the allocator call that made the parameter node w
AllocOf(r, w) == CHOOSE a \in {r.allocs[i] : i \in DOMAIN r.allocs} : a[2] = w[2][2]

\* the convolution (with its bias) of each group of a ConvPoolLayer's graph
ConvPoolConvs(expr) ==
    LET pooled == IF expr[1] = "lrn" THEN expr[2] ELSE expr
        activated == IF pooled[1] = "pool" THEN pooled[2] ELSE pooled
        conv_out == activated[3]
    IN  IF conv_out[1] = "concatenate" THEN <<conv_out[2], conv_out[3]>> ELSE <<conv_out>>

\* a convolution's output has one channel per filter of its kernels (kerns.shape[0])
\* and expects kerns.shape[1] channels of its image
FiltersOf(r, conv) == Item(AllocOf(r, conv[2][4])[3], 0)[2]
ExpectedChannelsOf(r, conv) == Item(AllocOf(r, conv[2][4])[3], 1)[2]

\* the channels of the image of a convolution: all C of the input, its first
\* `half` (input[:, :half]) or the others (input[:, half:])
ImageChannelsOf(conv, C) ==
    LET img == conv[2][3]
    IN  IF img[1] = "channels_to" THEN Min(img[3], C)
        ELSE IF img[1] = "channels_from" THEN C - Min(img[3], C)
        ELSE C

\* concatenation on axis 1 adds the channels of its operands
RECURSIVE SumOver(_, _)
SumOver(f, i) == IF i = 0 THEN 0 ELSE f[i] + SumOver(f, i - 1)

OutputChannels(r) ==
    LET convs == ConvPoolConvs(r.layer.output_expr)
    IN  SumOver([i \in DOMAIN convs |-> FiltersOf(r, convs[i])], Len(convs))

GroupTwoWithoutParamsHook ==
    /\ Called("ConvPoolLayer") /\ BuiltLayer /\ last.call.params_hook = None
    /\ NumEq(Requested(last.call, "group"), 2)

\* C11: a ConvPoolLayer built with group 2 and no params_hook has as many output
\* channels (the two sub-convolutions' filters, concatenated) as the requested
\* filter_shape[0], and each of the two input channel slices has the number of
\* channels its sub-convolution's weights expect.
C11_GroupTwoChannelCounts ==
    GroupTwoWithoutParamsHook =>
        LET r == last.result
            convs == ConvPoolConvs(r.layer.output_expr)
            C == Item(r.layer.resolved.input_shape, 1)[2]
        IN  /\ Len(convs) = 2
            /\ OutputChannels(r) = Item(Requested(last.call, "filter_shape"), 0)[2]
            /\ \A i \in 1..2 : ImageChannelsOf(convs[i], C) = ExpectedChannelsOf(r, convs[i])

IsWeightAlloc(a) == a[1] \in {"get_weights_uniform", "get_weights_gaussian"}
IsBiasAlloc(a) == a[1] = "get_bias"

\* the length of a bias allocated with shape n or (n,)
BiasLength(shape) == IF shape[1] = "int" THEN shape[2] ELSE Item(shape, 0)[2]

\* a call without hooks whose options are all valid ones
NoHooks(c) ==
    /\ c.inputs_hook = None /\ c.params_hook = None
    /\ (c.kind = "DAE" => c.hiddens_hook = None)

ValidCombination(c) ==
    CASE c.kind = "DAE" -> TRUE
      [] c.kind \in {"Conv1D", "Conv2D"} ->
            /\ Lower(Requested(c, "weights_init")[2]) \in {"gaussian", "uniform"}
            /\ Requested(c, "border_mode") \in {PyStr("valid"), PyStr("full"), PyStr("same")}
      [] c.kind = "ConvPoolLayer" ->
            NumEq(Requested(c, "group"), 1) \/ NumEq(Requested(c, "group"), 2)

\* the weight shape a call declares
DeclaredWeightShape(c) ==
    IF c.kind = "DAE"
    THEN PyTuple(<<Requested(c, "input_size"), Requested(c, "hidden_size")>>)
    ELSE Requested(c, "filter_shape")

\* the number of output channels (units) the bias named name is added to
DeclaredBiasLength(c, name) ==
    IF c.kind = "DAE"
    THEN IF name = "b0" THEN Requested(c, "input_size")[2]
         ELSE Requested(c, "hidden_size")[2]
    ELSE Item(Requested(c, "filter_shape"), 0)[2]

\* C12: a layer constructed without hooks from a valid combination of options
\* allocates its weights with exactly the declared shape (input_size x hidden_size,
\* respectively filter_shape) and each bias with the length of the output channel
\* (unit) count: input_size and hidden_size, respectively filter_shape[0].
C12_AllocatedShapesAreDeclared ==
    (last.call.kind # "none" /\ NoHooks(last.call) /\ ValidCombination(last.call)) =>
        LET made == last.result.allocs
        IN  /\ \E i \in DOMAIN made : IsWeightAlloc(made[i])
            /\ \E i \in DOMAIN made : IsBiasAlloc(made[i])
            /\ \A i \in DOMAIN made :
                  /\ IsWeightAlloc(made[i]) =>
                        made[i][3][2] = DeclaredWeightShape(last.call)[2]
                  /\ IsBiasAlloc(made[i]) =>
                        BiasLength(made[i][3]) = DeclaredBiasLength(last.call, made[i][2])

\* the options of a call that have no entry in the layer's defaults and that
\* neither an argument, the config nor a hook gives a value
Unresolved(c) ==
    {name \in (DOMAIN c.opts) \cap {"stride", "strides", "filter_shape", "input_shape"} :
        /\ Requested(c, name) = None
        /\ (name = "input_shape" => c.inputs_hook = None)}

\* the operands of the convolution of a built Conv1D / Conv2D
ConvNodeOf(layer) ==
    LET conved == layer.output_expr[3][2]
    IN  IF conved[1] = "crop" THEN conved[2] ELSE conved

\* subsample, image_shape, filter_shape
ShapeOperands == {5, 6, 7}

\* None, or a tuple with None in it
HasNone(v) == v = None \/ (v[1] = "tuple" /\ \E i \in DOMAIN v[2] : v[2][i] = None)

\* C13: a constructor whose stride / strides, filter_shape or input_shape
\* resolves to no value fails construction without allocating a parameter; the
\* convolution of a built layer is never handed None for one of them.
C13_MissingOptionFailsFast ==
    (last.call.kind \in {"Conv1D", "Conv2D"}) =>
        /\ Unresolved(last.call) # {} =>
              /\ ~BuiltLayer
              /\ \A i \in DOMAIN last.result.allocs : ~IsWeightAlloc(last.result.allocs[i])
        /\ BuiltLayer => \A i \in ShapeOperands : ~HasNone(ConvNodeOf(last.result.layer)[i])

ConstructionFailed == last.call.kind # "none" /\ ~BuiltLayer

\* C14: when a construction fails, it fails before the first parameter is
\* allocated: the validation of the hooks, of weights_init, of border_mode, of
\* group and of the activation precedes every allocation.
C14_ValidationBeforeAllocation ==
    ConstructionFailed =>
        \A i \in DOMAIN last.result.allocs :
            ~IsWeightAlloc(last.result.allocs[i]) /\ ~IsBiasAlloc(last.result.allocs[i])

\* C15: no constructor call changes a shape value the caller supplied: the
\* array the caller keeps as a config's filter_shape holds after every call what
\* it held before, so that a second construction from the same config resolves
\* the same shape as the first.
C15_CallerShapesUnchanged == [][caller_filter_shape' = caller_filter_shape]_vars

\* is expr the convolution of an image with kernels, a bias added?
IsBiasedConv(expr) == expr[1] = "add" /\ expr[2][1] = "conv" /\ expr[3][1] = "dimshuffle"

\* the stages of a ConvPoolLayer's output, for a pool size and a normalization
\* option: convolution, bias, activation, then pooling unless the pool size
\* is 1, then local-response normalization if the option is true
StagesInOrder(layer, poolsize, lrn) ==
    LET e == layer.output_expr
        normalised == e[1] = "lrn"
        below == IF normalised THEN e[2] ELSE e
        pooled == below[1] = "pool"
        activated == IF pooled THEN below[2] ELSE below
        convs == ConvPoolConvs(e)
    IN  /\ normalised <=> lrn = PyBool(TRUE)
        /\ pooled <=> ~NumEq(poolsize, 1)
        /\ pooled => below[3] = PyTuple(<<poolsize, poolsize>>)
        /\ activated[1] = "apply"
        /\ activated[2] = Conv_activation_func(layer.resolved.activation)
        /\ \A i \in DOMAIN convs : IsBiasedConv(convs[i])

\* C16: the output of a built ConvPoolLayer is convolution, bias, activation,
\* max-pooling, local-response normalization in that order, with pooling present
\* exactly when the pool size the caller's options resolve to is not 1 and the
\* normalization exactly when the local_response_normalization option they
\* resolve to (argument over config over defaults) is true.
C16_StageOrder ==
    (Called("ConvPoolLayer") /\ BuiltLayer) =>
        StagesInOrder(last.result.layer, Requested(last.call, "poolsize"),
                      Requested(last.call, "local_response_normalization"))

\* the size or shape of the input a built layer allocated its parameters for
InputSizeUsed(layer) ==
    IF layer.kind = "DAE" THEN layer.resolved.input_size ELSE layer.resolved.input_shape

\* C17: a constructor given an inputs_hook that is not a 2-element (shape,
\* tensor) pair fails construction; given a pair, it takes the hook's shape as
\* its input size / shape, and a DenoisingAutoencoder allocating its parameters
\* gives W inputs_hook[0] rows and b0 the length inputs_hook[0].
C17_InputsHookValidated ==
    (last.call.kind # "none" /\ last.call.inputs_hook # None) =>
        LET hook == last.call.inputs_hook
            r == last.result
        IN  /\ ~IsPair(hook) => ~BuiltLayer
            /\ (IsPair(hook) /\ BuiltLayer) =>
                  /\ InputSizeUsed(r.layer) = Item(hook, 0)
                  /\ (r.layer.kind = "DAE" /\ last.call.params_hook = None) =>
                        /\ Item(AllocOf(r, r.layer.params[1])[3], 0) = Item(hook, 0)
                        /\ AllocOf(r, r.layer.params[2])[3] = Item(hook, 0)

====
